---- MODULE Spec2Model ----
(***************************************************************************)
(* A model of the tskr frontend: the App component (task collection, view  *)
(* mode, selected date, fetches) and the TaskList component (grouping,     *)
(* visible ordering, click / ctrl-click / shift-click selection, toggle    *)
(* and delete requests), together with the recurrence classifier.          *)
(***************************************************************************)
EXTENDS Integers, Sequences, FiniteSets, TLC

VARIABLES
    tasks,                    \* App: useState<Task[]>
    viewMode,                 \* App: 'day' | 'all' | 'completed'
    selectedDate,             \* App: YYYY-MM-DD
    dayViewMode,              \* TaskList: 'list' | 'calendar'
    selectedIds,              \* TaskList: Set<string>
    lastClickedIndexRef,      \* TaskList: number | null
    orderedVisibleTasksRef,   \* TaskList: Task[] stored by the last render
    rendered,                 \* the rows and blocks on screen, each with its click index
    clickResult,              \* how the most recent click handler ended
    fetches,                  \* GET requests in flight, per captured url
    mutations,                \* PATCH / DELETE requests in flight
    settled,                  \* how the most recent toggle/delete promise settled
    db,                       \* the persistence collaborator's task rows
    rule,                     \* the argument handed to classifyRecurrence
    classified,               \* what classifyRecurrence returned for it
    given,                    \* the argument handed to a render function on its own
    result,                   \* what the render function returned for it
    next_number               \* the collaborator's numbering sequences

vars == <<tasks, viewMode, selectedDate, dayViewMode, selectedIds,
          lastClickedIndexRef, orderedVisibleTasksRef, rendered,
          clickResult, fetches, mutations, settled, db, rule, classified,
          given, result, next_number>>

---------------------------------------------------------------------------
(* Values *)

\* null of a string-valued field (recurrence_rule, scheduled_date)
Null == "<null>"

\* null of lastClickedIndexRef (visible indices are >= 0)
NoIndex == -1

\* null of duration_minutes
NoDuration == -1

ViewModes == {"day", "all", "completed"}

DayViewModes == {"list", "calendar"}

\* the calendar days the date picker is moved between; the first is todayStr
Dates == <<"2024-01-01", "2024-01-02">>

todayStr == Dates[1]

---------------------------------------------------------------------------
(* Strings: JavaScript's toLowerCase, includes, slice, < on the characters  *)
(* the rules and dates of the model are written in.                         *)

Upper == "ABCDEFGHIJKLMNOPQRSTUVWXYZ"

Lower == "abcdefghijklmnopqrstuvwxyz"

\* characters in UTF-16 code unit order, as far as the model uses them
CodeOrder == " ,-0123456789:ABCDEFGHIJKLMNOPQRSTUVWXYZabcdefghijklmnopqrstuvwxyz"

CharAt(s, i) == SubSeq(s, i, i)

Chars(alphabet) == {CharAt(alphabet, i) : i \in 1..Len(alphabet)}

\* String.prototype.toLowerCase on one character
LowerOf == [c \in Chars(Upper) |->
               CharAt(Lower, CHOOSE i \in 1..Len(Upper) : CharAt(Upper, i) = c)]

\* the position of a character in the code unit order
CodeOf == [c \in Chars(CodeOrder) |->
              CHOOSE i \in 1..Len(CodeOrder) : CharAt(CodeOrder, i) = c]

LowerChar(c) == IF c \in DOMAIN LowerOf THEN LowerOf[c] ELSE c

RECURSIVE toLowerCase(_)
toLowerCase(s) ==
    IF Len(s) = 0 THEN ""
    ELSE LowerChar(CharAt(s, 1)) \o toLowerCase(SubSeq(s, 2, Len(s)))

includes(s, d) ==
    \E i \in 1..(Len(s) - Len(d) + 1) : SubSeq(s, i, i + Len(d) - 1) = d

IsDigit(c) == c \in {"0", "1", "2", "3", "4", "5", "6", "7", "8", "9"}

\* a < b on strings: code unit order, a proper prefix first
RECURSIVE StrLess(_, _)
StrLess(a, b) ==
    IF Len(b) = 0 THEN FALSE
    ELSE IF Len(a) = 0 THEN TRUE
    ELSE IF CharAt(a, 1) = CharAt(b, 1)
         THEN StrLess(SubSeq(a, 2, Len(a)), SubSeq(b, 2, Len(b)))
         ELSE CodeOf[CharAt(a, 1)] < CodeOf[CharAt(b, 1)]

---------------------------------------------------------------------------
(* RecurrenceClassifier *)

dayNames == <<"monday", "tuesday", "wednesday", "thursday", "friday",
              "saturday", "sunday", "mon", "tue", "wed", "thu", "fri",
              "sat", "sun">>

\* /^\d{2}-\d{2}$/.test(r)
MatchesTwoDashTwo(r) ==
    /\ Len(r) = 5
    /\ IsDigit(CharAt(r, 1)) /\ IsDigit(CharAt(r, 2))
    /\ CharAt(r, 3) = "-"
    /\ IsDigit(CharAt(r, 4)) /\ IsDigit(CharAt(r, 5))

\* the classifier with the monthly test placed before the weekday test
classifyMonthlyFirst(r0) ==
    IF r0 = Null \/ r0 = "" THEN "Other"
    ELSE LET r == toLowerCase(r0) IN
         IF r = "daily" THEN "Daily"
         ELSE IF r = "weekdays" THEN "Weekdays"
         ELSE IF includes(r, "monthly") \/ MatchesTwoDashTwo(r) THEN "Monthly"
         ELSE IF \E k \in 1..Len(dayNames) : includes(r, dayNames[k]) THEN "Weekly"
         ELSE "Other"

\* the classifier comparing the rule as it was written
classifyCaseSensitive(r0) ==
    IF r0 = Null \/ r0 = "" THEN "Other"
    ELSE IF r0 = "daily" THEN "Daily"
    ELSE IF r0 = "weekdays" THEN "Weekdays"
    ELSE IF \E k \in 1..Len(dayNames) : includes(r0, dayNames[k]) THEN "Weekly"
    ELSE IF includes(r0, "monthly") \/ MatchesTwoDashTwo(r0) THEN "Monthly"
    ELSE "Other"

\* the classifier without if (!rule): null.toLowerCase() throws
classifyUnguarded(r0) ==
    IF r0 = Null THEN "TypeError"
    ELSE LET r == toLowerCase(r0) IN
         IF r = "daily" THEN "Daily"
         ELSE IF r = "weekdays" THEN "Weekdays"
         ELSE IF \E k \in 1..Len(dayNames) : includes(r, dayNames[k]) THEN "Weekly"
         ELSE IF includes(r, "monthly") \/ MatchesTwoDashTwo(r) THEN "Monthly"
         ELSE "Other"

\* classifyRecurrence(rule)
classifyRecurrence(r0) ==
    IF r0 = Null \/ r0 = "" THEN "Other"
    ELSE LET r == toLowerCase(r0) IN
         IF r = "daily" THEN "Daily"
         ELSE IF r = "weekdays" THEN "Weekdays"
         ELSE IF \E k \in 1..Len(dayNames) : includes(r, dayNames[k]) THEN "Weekly"
         ELSE IF includes(r, "monthly") \/ MatchesTwoDashTwo(r) THEN "Monthly"
         ELSE "Other"

---------------------------------------------------------------------------
(* Task records and sequence helpers *)

Task(id, category, completed, scheduled_date, recurrence_rule, is_template) ==
    [id |-> id, category |-> category, completed |-> completed,
     scheduled_date |-> scheduled_date, recurrence_rule |-> recurrence_rule,
     is_template |-> is_template, parent_task_id |-> Null,
     duration_minutes |-> NoDuration, projected |-> FALSE]

\* ordered[i] with the code's 0-based index
At(s, i) == s[i + 1]

\* the ids of the tasks of a sequence
Ids(s) == {s[k].id : k \in 1..Len(s)}

RECURSIVE Concat(_)
Concat(ss) == IF Len(ss) = 0 THEN <<>> ELSE Head(ss) \o Concat(Tail(ss))

\* t.scheduled_date && t.scheduled_date.includes('T')
isTimed(t) == t.scheduled_date # Null /\ includes(t.scheduled_date, "T")

---------------------------------------------------------------------------
(* Grouping of recurring tasks: bucket by classifyRecurrence, then move     *)
(* every named bucket with fewer than 2 members into Other.                 *)

bucket(templates, key) ==
    SelectSeq(templates, LAMBDA t : classifyRecurrence(t.recurrence_rule) = key)

orderedKeys == <<"Daily", "Weekdays", "Weekly", "Monthly">>

\* a collapse that would move no bucket into Other
collapseNone(daily, weekdays, weekly, monthly, other) ==
    [Daily |-> daily, Weekdays |-> weekdays, Weekly |-> weekly,
     Monthly |-> monthly, Other |-> other]

\* orderedKeys.forEach(key => { if (groups[key].length < 2) ... })
collapse(daily, weekdays, weekly, monthly, other) ==
    [Daily |-> IF Len(daily) < 2 THEN <<>> ELSE daily,
     Weekdays |-> IF Len(weekdays) < 2 THEN <<>> ELSE weekdays,
     Weekly |-> IF Len(weekly) < 2 THEN <<>> ELSE weekly,
     Monthly |-> IF Len(monthly) < 2 THEN <<>> ELSE monthly,
     Other |-> other
               \o (IF Len(daily) < 2 THEN daily ELSE <<>>)
               \o (IF Len(weekdays) < 2 THEN weekdays ELSE <<>>)
               \o (IF Len(weekly) < 2 THEN weekly ELSE <<>>)
               \o (IF Len(monthly) < 2 THEN monthly ELSE <<>>)]

\* templates.forEach(t => groups[classifyRecurrence(...)].push(t)), collapsed
groups(templates) ==
    collapse(bucket(templates, "Daily"), bucket(templates, "Weekdays"),
             bucket(templates, "Weekly"), bucket(templates, "Monthly"),
             bucket(templates, "Other"))

\* a flattening that would put Other first
flattenOtherFirst(g) == g.Other \o g.Daily \o g.Weekdays \o g.Weekly \o g.Monthly

\* [...groups['Daily'], ...groups['Weekdays'], ..., ...groups['Other']]
flatten(g) == g.Daily \o g.Weekdays \o g.Weekly \o g.Monthly \o g.Other

flattenRecurrent(templates) == flatten(groups(templates))

---------------------------------------------------------------------------
(* Rendering: every rendered item carries the task and the index that its   *)
(* onClick hands to handleSelectBoxClick.                                   *)

renderTaskItem(task, indexInOrdered) == [task |-> task, index |-> indexInOrdered]

renderSection(sectionTasks, startIndex) ==
    [i \in 1..Len(sectionTasks) |->
        renderTaskItem(sectionTasks[i], startIndex + (i - 1))]

renderSubsection(sectionTasks, startIndex) ==
    [i \in 1..Len(sectionTasks) |->
        renderTaskItem(sectionTasks[i], startIndex + (i - 1))]

\* the subsections of the Recurrent section, runningIndex from startIndex on
subsections(g, startIndex) ==
    IF \E k \in 1..Len(orderedKeys) : Len(g[orderedKeys[k]]) > 0
    THEN renderSubsection(g.Daily, startIndex)
         \o renderSubsection(g.Weekdays, startIndex + Len(g.Daily))
         \o renderSubsection(g.Weekly, startIndex + Len(g.Daily) + Len(g.Weekdays))
         \o renderSubsection(g.Monthly,
                startIndex + Len(g.Daily) + Len(g.Weekdays) + Len(g.Weekly))
         \o renderSubsection(g.Other,
                startIndex + Len(g.Daily) + Len(g.Weekdays) + Len(g.Weekly)
                + Len(g.Monthly))
    ELSE [i \in 1..Len(g.Other) |-> renderTaskItem(g.Other[i], startIndex + (i - 1))]

renderRecurrentSection(templates, startIndex) ==
    IF Len(templates) = 0 THEN <<>> ELSE subsections(groups(templates), startIndex)

\* the h4 of renderSubsection: none when sectionTasks is empty
subsectionTitle(title, sectionTasks) ==
    IF Len(sectionTasks) = 0 THEN <<>> ELSE <<title>>

\* the subsection headers of the Recurrent section: none at all when
\* hasSubsections is false (Other is then a plain list)
subsectionTitles(g) ==
    IF \E k \in 1..Len(orderedKeys) : Len(g[orderedKeys[k]]) > 0
    THEN subsectionTitle("Daily", g.Daily) \o subsectionTitle("Weekdays", g.Weekdays)
         \o subsectionTitle("Weekly", g.Weekly) \o subsectionTitle("Monthly", g.Monthly)
         \o subsectionTitle("Other", g.Other)
    ELSE <<>>

\* what renderRecurrentSection shows for the groups g: headers and rows
recurrentSection(g, flat) ==
    [groups |-> g, flat |-> flat, titles |-> subsectionTitles(g),
     items |-> subsections(g, 0)]

\* a sort step that would leave the collection order
insertFirst(x, sorted) == <<x>> \o sorted

\* x placed into the ascending sequence sorted
insertByScheduledDate(x, sorted) ==
    SelectSeq(sorted, LAMBDA y : StrLess(y.scheduled_date, x.scheduled_date))
    \o <<x>>
    \o SelectSeq(sorted, LAMBDA y : ~StrLess(y.scheduled_date, x.scheduled_date))

\* [...].sort((a, b) => a.scheduled_date < b.scheduled_date ? -1 : 1), by
\* insertion; the tasks of the model carry pairwise different times
RECURSIVE sortByScheduledDate(_)
sortByScheduledDate(s) ==
    IF Len(s) <= 1 THEN s
    ELSE insertByScheduledDate(Head(s), sortByScheduledDate(Tail(s)))

\* the least string of a non-empty set
least(S) == CHOOSE x \in S : \A y \in S \ {x} : StrLess(x, y)

\* [...new Set(xs)].sort()
RECURSIVE sortStrings(_)
sortStrings(S) ==
    IF S = {} THEN <<>> ELSE <<least(S)>> \o sortStrings(S \ {least(S)})

\* px per hour; 1px per minute
HOUR_HEIGHT == 60

\* minutes, fallback when duration_minutes is null
DEFAULT_DURATION == 30

\* String.prototype.slice(from, to) with the code's 0-based positions
slice(str, from, to) == SubSeq(str, from + 1, to)

DigitValue == [c \in Chars("0123456789") |->
                  (CHOOSE i \in 1..10 : CharAt("0123456789", i) = c) - 1]

\* Number(str) on a string of decimal digits
RECURSIVE Number(_)
Number(str) ==
    IF Len(str) = 0 THEN 0
    ELSE 10 * Number(SubSeq(str, 1, Len(str) - 1)) + DigitValue[CharAt(str, Len(str))]

\* a || b on a number | null: null and 0 are falsy
orElse(a, b) == IF a = NoDuration \/ a = 0 THEN b ELSE a

max(a, b) == IF a > b THEN a ELSE b

\* a style whose height would be heightPx itself
blockStyleUnclipped(h, m, duration) ==
    [top |-> h * HOUR_HEIGHT + m * (HOUR_HEIGHT \div 60),
     height |-> duration * (HOUR_HEIGHT \div 60)]

\* topPx and Math.max(heightPx, 16) from the hour, the minute and the duration
blockStyle(h, m, duration) ==
    [top |-> h * HOUR_HEIGHT + m * (HOUR_HEIGHT \div 60),
     height |-> max(duration * (HOUR_HEIGHT \div 60), 16)]

\* a block of the time grid with its click index and its style
styled(task, indexInOrdered, style) ==
    [task |-> task, index |-> indexInOrdered,
     top |-> style.top, height |-> style.height]

\* timedTasks.map((task, i) => ...): timePart, h, m, duration
calendarBlock(task, indexInOrdered) ==
    styled(task, indexInOrdered,
           blockStyle(Number(slice(task.scheduled_date, 11, 13)),
                      Number(slice(task.scheduled_date, 14, 16)),
                      orElse(task.duration_minutes, DEFAULT_DURATION)))

\* the ordering, the Unscheduled list and the blocks of the time grid
calendarParts(untimedTasks, timedTasks) ==
    [ordered |-> untimedTasks \o timedTasks,
     unscheduled |-> renderSection(untimedTasks, 0),
     blocks |-> [i \in 1..Len(timedTasks) |->
                    calendarBlock(timedTasks[i], Len(untimedTasks) + (i - 1))]]

\* what the calendar stores and shows
calendarShown(parts) ==
    [ordered |-> parts.ordered, stored |-> TRUE,
     items |-> parts.unscheduled \o parts.blocks]

\* timedTasks sorted, untimedTasks, and what is laid out from them
calendarView(ts) ==
    calendarParts(SelectSeq(ts, LAMBDA t : ~isTimed(t)),
                  sortByScheduledDate(SelectSeq(ts, isTimed)))

renderCalendarView(ts) == calendarShown(calendarView(ts))

\* the Meetings, Daily and Tasks sections of the day list
dayList(meetings, daily, other) ==
    [ordered |-> meetings \o daily \o other,
     stored |-> TRUE,
     items |-> renderSection(meetings, 0)
               \o renderSection(daily, Len(meetings))
               \o renderSection(other, Len(meetings) + Len(daily))]

renderDayView(ts, dvm) ==
    IF dvm = "list"
    THEN IF Len(ts) = 0
         THEN [ordered |-> <<>>, stored |-> FALSE, items |-> <<>>]
         ELSE dayList(SelectSeq(ts, LAMBDA t : t.category = "M"),
                      SelectSeq(ts, LAMBDA t : t.category = "D"),
                      SelectSeq(ts, LAMBDA t : t.category # "M" /\ t.category # "D"))
    ELSE renderCalendarView(ts)

\* the tasks of each project category, in the order of projectCategories
byCategory(projectTasks, projectCategories) ==
    [k \in 1..Len(projectCategories) |->
        SelectSeq(projectTasks, LAMBDA t : t.category = projectCategories[k])]

\* projectCategories.map(cat => ...): si = sectionStart, then sectionStart
\* += catTasks.length
RECURSIVE projectSections(_, _)
projectSections(catTasks, sectionStart) ==
    IF Len(catTasks) = 0 THEN <<>>
    ELSE renderSection(Head(catTasks), sectionStart)
         \o projectSections(Tail(catTasks), sectionStart + Len(Head(catTasks)))

\* the ordered list and the sections of the all / completed view; the
\* project sections are handed sectionStart as the Tasks section left it:
\* meetings.length + recurrentFlat.length
allTasksSections(meetings, recurrent, recurrentFlat, regularTasks, catTasks) ==
    [ordered |-> meetings \o recurrentFlat \o regularTasks \o Concat(catTasks),
     stored |-> TRUE,
     items |-> IF Len(meetings) = 0 /\ Len(recurrent) = 0
                  /\ Len(regularTasks) = 0 /\ Len(catTasks) = 0
               THEN <<>>
               ELSE renderSection(meetings, 0)
                    \o renderRecurrentSection(recurrent, Len(meetings))
                    \o renderSection(regularTasks, Len(meetings) + Len(recurrentFlat))
                    \o projectSections(catTasks, Len(meetings) + Len(recurrentFlat))]

\* the four filters of renderAllTasksView, grouped
allTasksGroups(meetings, recurrent, regularTasks, projectTasks) ==
    allTasksSections(meetings, recurrent, flattenRecurrent(recurrent), regularTasks,
        byCategory(projectTasks,
            sortStrings({projectTasks[k].category : k \in 1..Len(projectTasks)})))

\* the tasks of the Recurrent section: the templates in the all view, the
\* completed tasks with a recurrence_rule in the completed view
recurrentOf(ts, completedFilter) ==
    SelectSeq(ts, LAMBDA t : IF completedFilter
                             THEN t.completed /\ t.recurrence_rule # Null
                                  /\ t.recurrence_rule # "" /\ ~t.is_template
                             ELSE t.is_template)

renderAllTasksView(ts, completedFilter) ==
    allTasksGroups(
        SelectSeq(ts, LAMBDA t : t.category = "M" /\ ~t.is_template
                              /\ t.completed = completedFilter),
        recurrentOf(ts, completedFilter),
        SelectSeq(ts, LAMBDA t : t.category = "T" /\ ~t.is_template
                              /\ t.completed = completedFilter),
        SelectSeq(ts, LAMBDA t : ~t.is_template /\ t.category \notin {"M", "T", "D"}
                              /\ t.completed = completedFilter))

\* TaskList's render: what it stores in orderedVisibleTasksRef and what it shows
Render(ts, vm, dvm) ==
    IF vm = "day" THEN renderDayView(ts, dvm)
    ELSE renderAllTasksView(ts, vm = "completed")

---------------------------------------------------------------------------
(* The persistence collaborator: its rows, the two reads and the two        *)
(* mutations the frontend calls.                                            *)

M1 == Task("m1", "M", FALSE, "2024-01-01T09:30", Null, FALSE)

R1 == Task("r1", "D", FALSE, Null, "daily", TRUE)

T1 == Task("t1", "T", FALSE, "2024-01-01", Null, FALSE)

T2 == Task("t2", "T", FALSE, "2024-01-03", Null, FALSE)

P1 == Task("p1", "P", FALSE, Null, Null, FALSE)

T3 == Task("t3", "T", FALSE, "2024-01-03", Null, FALSE)

T4 == Task("t4", "T", FALSE, "2024-01-01T14:00", Null, FALSE)

T5 == Task("t5", "T", FALSE, "2024-01-04", Null, FALSE)

\* the rows the collaborator holds when the page is opened
InitialRows == <<R1, T1, P1>>

\* a collection of one meeting and five tasks, three of them scheduled
\* after the days the date navigation visits
SixRows == <<M1, T1, T2, T3, T4, T5>>

\* the url fetchTasks builds from the viewMode and selectedDate it closes over
fetchUrl(vm, date) ==
    IF vm = "day" THEN "/tasks/for-date?date=" \o date ELSE "/tasks"

Urls == {fetchUrl(vm, Dates[k]) : vm \in ViewModes, k \in 1..Len(Dates)}

\* the days nextOccurrence searches forward through
MaxDays == 8

\* 2024-01-01 is a Monday
AllDays ==
    <<"2024-01-01", "2024-01-02", "2024-01-03", "2024-01-04", "2024-01-05",
      "2024-01-06", "2024-01-07", "2024-01-08", "2024-01-09", "2024-01-10",
      "2024-01-11", "2024-01-12", "2024-01-13", "2024-01-14">>

Days == SubSeq(AllDays, 1, MaxDays)

\* 0 for Monday .. 6 for Sunday
weekday(date) == ((CHOOSE k \in 1..Len(AllDays) : AllDays[k] = date) - 1) % 7

dayCodes == <<"mon", "tue", "wed", "thu", "fri", "sat", "sun">>

\* OccurrencePatternMatcher.matches, for the daily, weekdays and
\* weekly:D1,D2,... rules
matches(r, date) ==
    LET l == toLowerCase(r) IN
    \/ l = "daily"
    \/ l = "weekdays" /\ weekday(date) < 5
    \/ /\ Len(l) > 7
       /\ SubSeq(l, 1, 7) = "weekly:"
       /\ includes(l, dayCodes[weekday(date) + 1])

\* OccurrencePatternMatcher.nextOccurrence: the smallest date strictly
\* greater than after that matches; Null when the window holds none
nextOccurrence(r, after) ==
    LET later == {k \in 1..Len(Days) : StrLess(after, Days[k]) /\ matches(r, Days[k])}
    IN IF later = {} THEN Null
       ELSE Days[CHOOSE k \in later : \A j \in later : k <= j]

\* a mutation that leaves a recurring row completed
completionKept(row, completed) == [row EXCEPT !.completed = completed]

\* the completion policy: a row with a recurrence_rule marked complete moves
\* to its next occurrence, keeps its time of day and is not completed
completion(row, completed) ==
    IF row.recurrence_rule = Null THEN [row EXCEPT !.completed = completed]
    ELSE IF ~completed \/ row.scheduled_date = Null THEN row
    ELSE LET next == nextOccurrence(row.recurrence_rule,
                                    SubSeq(row.scheduled_date, 1, 10))
         IN IF next = Null THEN row
            ELSE [row EXCEPT !.scheduled_date =
                                 next \o SubSeq(row.scheduled_date, 11,
                                                Len(row.scheduled_date)),
                             !.completed = FALSE]

\* DayProjector.projectForDate: real rows of the date, undated incomplete
\* rows, then one projected instance per matching template
projectForDate(rows, date) ==
    LET onDate(t) == t.scheduled_date # Null /\ SubSeq(t.scheduled_date, 1, 10) = date
        real == SelectSeq(rows, LAMBDA t : ~t.is_template /\
                          (onDate(t) \/ (t.scheduled_date = Null /\ ~t.completed)))
        materialized(tpl) == \E k \in 1..Len(rows) :
                                 rows[k].parent_task_id = tpl.id /\ onDate(rows[k])
        due == SelectSeq(rows, LAMBDA t : t.is_template /\ matches(t.recurrence_rule, date)
                                       /\ ~materialized(t))
        instance(tpl) ==
            [tpl EXCEPT !.id = tpl.id \o "@" \o date, !.projected = TRUE,
                        !.is_template = FALSE, !.parent_task_id = tpl.id,
                        !.scheduled_date =
                            IF isTimed(tpl)
                            THEN date \o SubSeq(tpl.scheduled_date, 11, Len(tpl.scheduled_date))
                            ELSE date]
    IN real \o [k \in 1..Len(due) |-> instance(due[k])]

\* what the collaborator answers to GET url
ServerRead(rows, u) ==
    IF u = "/tasks" THEN rows
    ELSE LET d == CHOOSE k \in 1..Len(Dates) : u = fetchUrl("day", Dates[k])
         IN projectForDate(rows, Dates[d])

\* setCompleted(id, bool) and delete(id) on the rows; a recurring row is
\* never left completed
ServerApply(rows, m) ==
    IF m.method = "DELETE" THEN SelectSeq(rows, LAMBDA t : t.id # m.id)
    ELSE [k \in 1..Len(rows) |->
             IF rows[k].id = m.id THEN completion(rows[k], m.completed)
             ELSE rows[k]]

---------------------------------------------------------------------------
(* Bounds *)

\* GET requests in flight at once
MaxFetches == 1

\* PATCH / DELETE requests in flight at once
MaxMutations == 1

PendingFetches == LET RECURSIVE sum(_)
                      sum(S) == IF S = {} THEN 0
                                ELSE LET u == CHOOSE x \in S : TRUE
                                     IN fetches[u] + sum(S \ {u})
                  IN sum(Urls)

\* fewer GET requests are in flight than the bound lets through
CanFetch(bound) == PendingFetches < bound

---------------------------------------------------------------------------
(* App *)

screenVars == <<orderedVisibleTasksRef, rendered>>

selectionVars == <<selectedIds, lastClickedIndexRef, clickResult>>

classifierVars == <<rule, classified>>

engineVars == <<given, result, next_number>>

\* fetchTasks() up to its first await: the GET leaves with the url built
\* from the viewMode and selectedDate of the render that made the closure
fetchTasks(pending, u) == [pending EXCEPT ![u] = @ + 1]

\* what a render leaves behind: the ref, when the render stored it, and
\* the rows on screen
Show(r) ==
    /\ orderedVisibleTasksRef' = IF r.stored THEN r.ordered ELSE orderedVisibleTasksRef
    /\ rendered' = r.items

\* a render of TaskList with the given props and state
Rerender(ts, vm, dvm) == Show(Render(ts, vm, dvm))

\* onViewModeChange(mode): setViewMode, the re-render, then the effect
OnViewModeChange(mode) ==
    /\ mode # viewMode
    /\ viewMode' = mode
    /\ Rerender(tasks, mode, dayViewMode)
    /\ fetches' = fetchTasks(fetches, fetchUrl(mode, selectedDate))
    /\ UNCHANGED <<tasks, selectedDate, dayViewMode, selectionVars,
                   mutations, settled, db, classifierVars, engineVars>>

\* onDateChange(date) from the date navigation of the day view
OnDateChange(date) ==
    /\ viewMode = "day"
    /\ date # selectedDate
    /\ selectedDate' = date
    /\ Rerender(tasks, viewMode, dayViewMode)
    /\ fetches' = fetchTasks(fetches, fetchUrl(viewMode, date))
    /\ UNCHANGED <<tasks, viewMode, dayViewMode, selectionVars,
                   mutations, settled, db, classifierVars, engineVars>>

\* the GET for url u answers: setTasks(data) and the re-render
FetchResolve(u) ==
    /\ fetches[u] > 0
    /\ fetches' = [fetches EXCEPT ![u] = @ - 1]
    /\ tasks' = ServerRead(db, u)
    /\ Rerender(tasks', viewMode, dayViewMode)
    /\ UNCHANGED <<viewMode, selectedDate, dayViewMode, selectionVars,
                   mutations, settled, db, classifierVars, engineVars>>

\* the GET for url u throws: console.error, nothing else
FetchReject(u) ==
    /\ fetches[u] > 0
    /\ fetches' = [fetches EXCEPT ![u] = @ - 1]
    /\ UNCHANGED <<tasks, viewMode, selectedDate, dayViewMode, screenVars,
                   selectionVars, mutations, settled, db, classifierVars, engineVars>>

---------------------------------------------------------------------------
(* TaskList *)

\* the List / Calendar buttons of the day view
SetDayViewMode(dvm) ==
    /\ viewMode = "day"
    /\ dvm # dayViewMode
    /\ dayViewMode' = dvm
    /\ Rerender(tasks, viewMode, dvm)
    /\ UNCHANGED <<tasks, viewMode, selectedDate, selectionVars, fetches,
                   mutations, settled, db, classifierVars, engineVars>>

\* the ids a shift-click collects: ordered[lo..hi]
rangeIds(ordered, lo, hi) == {At(ordered, i).id : i \in lo..hi}

\* a toggle-modifier branch that would leave lastClickedIndexRef alone
toggleKeepingLast(task, indexInOrdered) ==
    /\ selectedIds' = IF task.id \in selectedIds
                      THEN selectedIds \ {task.id}
                      ELSE selectedIds \cup {task.id}
    /\ clickResult' = "returned"
    /\ UNCHANGED lastClickedIndexRef

\* the ctrlKey || metaKey branch: toggle this task
toggle(task, indexInOrdered) ==
    /\ selectedIds' = IF task.id \in selectedIds
                      THEN selectedIds \ {task.id}
                      ELSE selectedIds \cup {task.id}
    /\ lastClickedIndexRef' = indexInOrdered
    /\ clickResult' = "returned"

\* the shiftKey branch: select range; ordered[i] is undefined past the end
\* of the array, and ordered[i].id then throws before setSelectedIds
selectRange(ordered, indexInOrdered) ==
    LET last == IF lastClickedIndexRef = NoIndex THEN indexInOrdered
                ELSE lastClickedIndexRef
        lo == IF last < indexInOrdered THEN last ELSE indexInOrdered
        hi == IF last > indexInOrdered THEN last ELSE indexInOrdered
    IN IF \A i \in lo..hi : i < Len(ordered)
       THEN /\ selectedIds' = rangeIds(ordered, lo, hi)
            /\ clickResult' = "returned"
            /\ UNCHANGED lastClickedIndexRef
       ELSE /\ clickResult' = "TypeError"
            /\ UNCHANGED <<selectedIds, lastClickedIndexRef>>

\* a normal-click branch that would always select only this task
selectOnly(task, indexInOrdered) ==
    /\ selectedIds' = {task.id}
    /\ lastClickedIndexRef' = indexInOrdered
    /\ clickResult' = "returned"

\* the normal-click branch: select only this, or deselect if already selected
selectOrDeselect(task, indexInOrdered) ==
    /\ selectedIds' = IF task.id \in selectedIds
                      THEN selectedIds \ {task.id}
                      ELSE {task.id}
    /\ lastClickedIndexRef' = indexInOrdered
    /\ clickResult' = "returned"

\* handleSelectBoxClick(task, indexInOrdered, e)
handleSelectBoxClick(task, indexInOrdered, ctrlKey, metaKey, shiftKey) ==
    IF ctrlKey \/ metaKey THEN toggle(task, indexInOrdered)
    ELSE IF shiftKey THEN selectRange(orderedVisibleTasksRef, indexInOrdered)
    ELSE selectOrDeselect(task, indexInOrdered)

\* a click on a rendered row or calendar block
SelectBoxClick(item, ctrlKey, metaKey, shiftKey) ==
    /\ handleSelectBoxClick(item.task, item.index, ctrlKey, metaKey, shiftKey)
    /\ UNCHANGED <<tasks, viewMode, selectedDate, dayViewMode, screenVars,
                   fetches, mutations, settled, db, classifierVars, engineVars>>

\* the request a checkbox or a delete button sends for the displayed task
request(method, task) ==
    [method |-> method, id |-> task.id, completed |-> ~task.completed,
     projected |-> task.projected, url |-> fetchUrl(viewMode, selectedDate),
     response |-> "pending"]

\* handleToggle(task) up to its await
handleToggle(task) ==
    /\ Cardinality(mutations) < MaxMutations
    /\ mutations' = mutations \cup {request("PATCH", task)}
    /\ UNCHANGED <<tasks, viewMode, selectedDate, dayViewMode, screenVars,
                   selectionVars, fetches, settled, db, classifierVars, engineVars>>

\* handleDelete(task) up to its await
handleDelete(task) ==
    /\ Cardinality(mutations) < MaxMutations
    /\ mutations' = mutations \cup {request("DELETE", task)}
    /\ UNCHANGED <<tasks, viewMode, selectedDate, dayViewMode, screenVars,
                   selectionVars, fetches, settled, db, classifierVars, engineVars>>

\* the collaborator answers a request in flight: res.ok, a non-OK status,
\* or the fetch throws
Respond(m, response) ==
    /\ m.response = "pending"
    /\ response = "ok" => m.id \in Ids(db)
    /\ mutations' = (mutations \ {m}) \cup {[m EXCEPT !.response = response]}
    /\ db' = IF response = "ok" THEN ServerApply(db, m) ELSE db
    /\ UNCHANGED <<tasks, viewMode, selectedDate, dayViewMode, screenVars,
                   selectionVars, fetches, settled, classifierVars, engineVars>>

\* a handler that would call onTasksUpdate() whatever the response
refetchesAlways(response) == TRUE

\* whether the rest of handleToggle / handleDelete calls onTasksUpdate():
\* only under if (res.ok)
refetches(response) == response = "ok"

\* how the promise would settle without the try / catch
promiseOfUncaught(response) ==
    IF response = "error" THEN "rejected" ELSE "fulfilled"

\* how the promise of handleToggle / handleDelete settles: the catch block
\* ignores the error, so the async function always returns normally
promiseOf(response) == "fulfilled"

\* handleToggle / handleDelete after the await
Resume(m) ==
    /\ m.response # "pending"
    /\ mutations' = mutations \ {m}
    /\ fetches' = IF refetches(m.response) THEN fetchTasks(fetches, m.url)
                  ELSE fetches
    /\ settled' = [promise |-> promiseOf(m.response),
                    refetched |-> refetches(m.response)]
    /\ UNCHANGED <<tasks, viewMode, selectedDate, dayViewMode, screenVars,
                   selectionVars, db, classifierVars, engineVars>>

---------------------------------------------------------------------------
(* The page *)

InitPage(rows, rules, inputs) ==
    /\ tasks = <<>>
    /\ viewMode = "day"
    /\ selectedDate = todayStr
    /\ dayViewMode = "list"
    /\ selectedIds = {}
    /\ lastClickedIndexRef = NoIndex
    /\ orderedVisibleTasksRef = <<>>
    /\ rendered = <<>>
    /\ clickResult = "none"
    /\ fetches = [u \in Urls |-> IF u = fetchUrl("day", todayStr) THEN 1 ELSE 0]
    /\ mutations = {}
    /\ settled = [promise |-> "none", refetched |-> FALSE]
    /\ db = rows
    /\ rule \in rules
    /\ classified = "none"
    /\ given \in inputs
    /\ result = <<>>
    /\ next_number = <<>>

\* the page just mounted: nothing shown yet, the first GET in flight
Init == InitPage(InitialRows, {Null}, {<<>>})

\* the view tabs, the date navigation, the List / Calendar buttons
Navigate ==
    \/ \E mode \in ViewModes : CanFetch(MaxFetches) /\ OnViewModeChange(mode)
    \/ \E k \in 1..Len(Dates) : CanFetch(MaxFetches) /\ OnDateChange(Dates[k])
    \/ \E dvm \in DayViewModes : SetDayViewMode(dvm)

\* a GET in flight ends
Fetched ==
    \/ \E u \in Urls : FetchResolve(u)
    \/ \E u \in Urls : FetchReject(u)

\* a click on a row or block, with any combination of modifier keys
Click ==
    \E k \in 1..Len(rendered), ctrlKey, metaKey, shiftKey \in BOOLEAN :
        SelectBoxClick(rendered[k], ctrlKey, metaKey, shiftKey)

\* a click on a row or block with no modifier key held
PlainClick ==
    \E k \in 1..Len(rendered) : SelectBoxClick(rendered[k], FALSE, FALSE, FALSE)

\* a checkbox or a delete button, the collaborator's answer, the handler's rest
Mutate ==
    \/ \E k \in 1..Len(rendered) : handleToggle(rendered[k].task)
    \/ \E k \in 1..Len(rendered) : handleDelete(rendered[k].task)
    \/ \E m \in mutations, response \in {"ok", "notok", "error"} : Respond(m, response)
    \/ \E m \in mutations :
           (refetches(m.response) => CanFetch(MaxFetches)) /\ Resume(m)

Next == Navigate \/ Fetched \/ Click \/ Mutate

\* the whole page
Spec == Init /\ [][Next]_vars

\* the page while no checkbox and no delete button is used
NextSelection == Navigate \/ Fetched \/ Click

SpecSelection == Init /\ [][NextSelection]_vars

\* the same, over a collection whose All view shows six rows
SpecSix == InitPage(SixRows, {Null}, {<<>>}) /\ [][NextSelection]_vars

\* the page on one date, rows selected with plain clicks only, while
\* checkboxes and delete buttons are used
NextMutation == Fetched \/ PlainClick \/ Mutate

SpecMutation == Init /\ [][NextMutation]_vars

\* GET requests in flight at once while the view mode and the date change
MaxRacing == 2

\* the view tabs and the date navigation, used while a GET is in flight
Race ==
    \/ \E mode \in ViewModes : CanFetch(MaxRacing) /\ OnViewModeChange(mode)
    \/ \E k \in 1..Len(Dates) : CanFetch(MaxRacing) /\ OnDateChange(Dates[k])

\* a GET in flight answers
Resolved == \E u \in Urls : FetchResolve(u)

NextFetch == Race \/ Resolved \/ Mutate

\* the page while every GET answers, in any order
SpecFetch == Init /\ [][NextFetch]_vars

---------------------------------------------------------------------------
(* The classifier on its own *)

\* two-digit strings
TwoDigits == {a \o b : a, b \in {"0", "1", "3", "5"}}

\* recurrence rules: the documented patterns, the DD-DD form, other text
Rules ==
    {"daily", "Daily", "weekdays", "WEEKDAYS", "monthly", "Monthly",
     "mon", "tue,thu", "Monday", "weekly:MON,WED,FRI", "weekly:sat",
     "monthly:3:WED", "yearly:01-15", "yearly", "", "1-15", "001-15",
     "01-150", "0a-15", "01_15", "every day", "every year", "bimonthly"}
    \cup {"monthly:" \o d : d \in TwoDigits}
    \cup {a \o "-" \o b : a, b \in TwoDigits}

\* a rule handed to classifyRecurrence
InitClassify == InitPage(InitialRows, Rules \cup {Null}, {<<>>})

\* classifyRecurrence(rule)
Classify ==
    /\ classified = "none"
    /\ classified' = classifyRecurrence(rule)
    /\ UNCHANGED <<tasks, viewMode, selectedDate, dayViewMode, screenVars,
                   selectionVars, fetches, mutations, settled, db, rule,
                   engineVars>>

SpecClassify == InitClassify /\ [][Classify]_vars

---------------------------------------------------------------------------
(* The classifier on rules that differ in letter case *)

\* String.prototype.toUpperCase on one character
UpperChar(c) ==
    IF c \in Chars(Lower)
    THEN CharAt(Upper, CHOOSE i \in 1..Len(Lower) : CharAt(Lower, i) = c)
    ELSE c

\* the strings that differ from s in letter case only
RECURSIVE CaseVariants(_)
CaseVariants(s) ==
    IF Len(s) = 0 THEN {""}
    ELSE {c \o rest : c \in {LowerChar(CharAt(s, 1)), UpperChar(CharAt(s, 1))},
                      rest \in CaseVariants(SubSeq(s, 2, Len(s)))}

\* a rule of every bucket, written in lower case
CaseBases ==
    {"daily", "weekdays", "mon", "monday", "tue,thu", "weekly:sat", "monthly",
     "monthly:15", "01-15", "yearly", "every day"}

\* a rule and a rule that differs from it in letter case only
CasePairs == UNION {{<<b, v>> : v \in CaseVariants(b)} : b \in CaseBases}

InitCase == InitPage(InitialRows, {Null}, CasePairs)

\* classifyRecurrence on both rules
ClassifyBoth ==
    /\ result = <<>>
    /\ result' = <<<<classifyRecurrence(given[1]), classifyRecurrence(given[2])>>>>
    /\ UNCHANGED <<tasks, viewMode, selectedDate, dayViewMode, screenVars,
                   selectionVars, fetches, mutations, settled, db,
                   classifierVars, given, next_number>>

SpecCase == InitCase /\ [][ClassifyBoth]_vars

---------------------------------------------------------------------------
(* The grouping of recurring tasks on its own *)

\* templates handed to the grouping at once
MaxTemplates == 5

\* one rule per bucket: Daily, Weekdays, Weekly, Monthly, Other
GroupRules == {"daily", "weekdays", "tue,thu", "01-15", "yearly:01-15"}

TemplateIds == "abcdefgh"

\* the lists of at most MaxTemplates templates over GroupRules
TemplateLists ==
    {[k \in 1..Len(rs) |-> Task(CharAt(TemplateIds, k), "D", FALSE, Null, rs[k], TRUE)] :
        rs \in UNION {[1..n -> GroupRules] : n \in 0..MaxTemplates}}

InitGroup == InitPage(InitialRows, {Null}, TemplateLists)

\* flattenRecurrent(templates) and renderRecurrentSection(templates, _, 0)
Group ==
    /\ result = <<>>
    /\ result' = <<recurrentSection(groups(given), flattenRecurrent(given))>>
    /\ UNCHANGED <<tasks, viewMode, selectedDate, dayViewMode, screenVars,
                   selectionVars, fetches, mutations, settled, db,
                   classifierVars, given, next_number>>

SpecGroup == InitGroup /\ [][Group]_vars

---------------------------------------------------------------------------
(* The day calendar on its own *)

\* tasks handed to the calendar at once, in any order
MaxCalendarTasks == 3

\* timed tasks laid out together
MaxBlocks == 2

E1 == Task("e1", "T", FALSE, "2024-01-01T09:05", Null, FALSE)

\* two untimed and three timed tasks
CalendarPool == {P1, T1, M1, T4, E1}

\* the lists of at most MaxCalendarTasks different tasks of the pool
CalendarLists ==
    UNION {{ts \in [1..n -> CalendarPool] :
               \A i, j \in 1..n : ts[i] = ts[j] => i = j} : n \in 0..MaxCalendarTasks}

TimesOfDay == {"00:00", "09:30", "09:45", "23:59"}

\* duration_minutes: null, 0, below the minimum height, the minimum, above it
Durations == {NoDuration, 0, 10, 16, 45}

timedTask(id, time, duration) ==
    [Task(id, "T", FALSE, "2024-01-01T" \o time, Null, FALSE)
        EXCEPT !.duration_minutes = duration]

\* the lists of at most MaxBlocks timed tasks at different times
BlockLists ==
    UNION {{[k \in 1..n |-> timedTask(CharAt(TemplateIds, k), c[k][1], c[k][2])] :
               c \in {x \in [1..n -> TimesOfDay \X Durations] :
                         \A i, j \in 1..n : x[i][1] = x[j][1] => i = j}} :
           n \in 1..MaxBlocks}

InitCalendar == InitPage(InitialRows, {Null}, CalendarLists \cup BlockLists)

\* renderCalendarView() over the tasks given
Calendar ==
    /\ result = <<>>
    /\ result' = <<calendarView(given)>>
    /\ UNCHANGED <<tasks, viewMode, selectedDate, dayViewMode, screenVars,
                   selectionVars, fetches, mutations, settled, db,
                   classifierVars, given, next_number>>

SpecCalendar == InitCalendar /\ [][Calendar]_vars

---------------------------------------------------------------------------
(* The day list on its own *)

\* tasks handed to the day list at once, in any order
MaxDayTasks == 3

D1 == Task("d1", "D", FALSE, "2024-01-01", Null, FALSE)

\* a recurring meeting
R2 == Task("r2", "M", FALSE, "2024-01-01T10:00", "daily", TRUE)

\* a real task of each section, and the instances projected from R1 and R2
DayPool ==
    LET projected == SelectSeq(projectForDate(<<R1, R2>>, "2024-01-01"),
                               LAMBDA t : t.projected)
    IN {M1, D1, T1} \cup {projected[k] : k \in 1..Len(projected)}

\* the lists of at most MaxDayTasks different tasks of the pool
DayLists ==
    UNION {{ts \in [1..n -> DayPool] :
               \A i, j \in 1..n : ts[i] = ts[j] => i = j} : n \in 0..MaxDayTasks}

InitDayList == InitPage(InitialRows, {Null}, DayLists)

\* renderDayView() in list mode over the tasks given
DayList ==
    /\ result = <<>>
    /\ result' = <<renderDayView(given, "list")>>
    /\ UNCHANGED <<tasks, viewMode, selectedDate, dayViewMode, screenVars,
                   selectionVars, fetches, mutations, settled, db,
                   classifierVars, given, next_number>>

SpecDayList == InitDayList /\ [][DayList]_vars

---------------------------------------------------------------------------
(* The collaborator's rows on their own: creation with an allocated number, *)
(* deletion, completion.                                                     *)

\* rows held at once
MaxRows == 2

\* the largest number a sequence hands out
MaxNumber == 2

\* a row of the tasks table with its task_number
numbered(t, n) ==
    [id |-> t.id, category |-> t.category, completed |-> t.completed,
     scheduled_date |-> t.scheduled_date, recurrence_rule |-> t.recurrence_rule,
     is_template |-> t.is_template, parent_task_id |-> t.parent_task_id,
     duration_minutes |-> t.duration_minutes, projected |-> t.projected,
     task_number |-> n]

\* the sequence a task is numbered in: its category and date for D and M,
\* its category for every other
sequenceKey(category, scheduled_date) ==
    IF category \in {"D", "M"}
    THEN category \o "@" \o SubSeq(scheduled_date, 1, 10)
    ELSE category

\* next_number of a sequence, 1 by default
nextOf(seq, key) == IF key \in DOMAIN seq THEN seq[key] ELSE 1

\* a sequence that hands out the same number again
sequenceKept(seq, key) == seq

\* the sequence after it handed out a number
advanceSequence(seq, key) ==
    [k \in DOMAIN seq \cup {key} |-> IF k = key THEN nextOf(seq, key) + 1 ELSE seq[k]]

\* category, scheduled_date and recurrence_rule of the tasks created
CreateInputs ==
    {<<"M", "2024-01-06T09:30", "daily">>,
     <<"M", "2024-01-07T14:00", Null>>,
     <<"D", "2024-01-05", "weekdays">>,
     <<"T", Null, Null>>,
     <<"T", "2024-01-04", "weekly:MON,THU">>}

RowIds == {CharAt(TemplateIds, k) : k \in 1..MaxRows}

InitRows == InitPage(<<>>, {Null}, {<<>>})

\* a task is created and IdentifierAllocator.allocate numbers it
Create(in) ==
    LET key == sequenceKey(in[1], in[2])
        id == CHOOSE i \in RowIds :
                  /\ \A k \in 1..Len(db) : db[k].id # i
                  /\ \A j \in RowIds :
                         (\A k \in 1..Len(db) : db[k].id # j) => ~StrLess(j, i)
    IN /\ Len(db) < MaxRows
       /\ nextOf(next_number, key) <= MaxNumber
       /\ db' = Append(db, numbered(Task(id, in[1], FALSE, in[2], in[3], FALSE),
                                    nextOf(next_number, key)))
       /\ next_number' = advanceSequence(next_number, key)
       /\ UNCHANGED <<tasks, viewMode, selectedDate, dayViewMode, screenVars,
                      selectionVars, fetches, mutations, settled,
                      classifierVars, given, result>>

\* delete(id)
Delete(id) ==
    /\ \E k \in 1..Len(db) : db[k].id = id
    /\ db' = SelectSeq(db, LAMBDA t : t.id # id)
    /\ UNCHANGED <<tasks, viewMode, selectedDate, dayViewMode, screenVars,
                   selectionVars, fetches, mutations, settled,
                   classifierVars, engineVars>>

\* the row after setCompleted: a D or M row that moved to another date is
\* numbered in the sequence of that date
renumbered(row, after, seq) ==
    IF row.category \in {"D", "M"} /\ after.scheduled_date # row.scheduled_date
    THEN [after EXCEPT !.task_number =
                           nextOf(seq, sequenceKey(after.category, after.scheduled_date))]
    ELSE after

\* setCompleted(id, completed)
SetCompleted(id, completed) ==
    \E k \in 1..Len(db) :
        LET after == completion(db[k], completed)
            moved == db[k].category \in {"D", "M"}
                     /\ after.scheduled_date # db[k].scheduled_date
            key == sequenceKey(after.category, after.scheduled_date)
        IN /\ db[k].id = id
           /\ moved => nextOf(next_number, key) <= MaxNumber
           /\ db' = [db EXCEPT ![k] = renumbered(db[k], after, next_number)]
           /\ next_number' = IF moved THEN advanceSequence(next_number, key)
                             ELSE next_number
           /\ UNCHANGED <<tasks, viewMode, selectedDate, dayViewMode, screenVars,
                          selectionVars, fetches, mutations, settled,
                          classifierVars, given, result>>

NextRows ==
    \/ \E in \in CreateInputs : Create(in)
    \/ \E id \in RowIds : Delete(id)
    \/ \E id \in RowIds, completed \in BOOLEAN : SetCompleted(id, completed)

SpecRows == InitRows /\ [][NextRows]_vars

---------------------------------------------------------------------------
(* The views on their own *)

\* tasks of the collection handed to a view
MaxViewTasks == 3

\* a completed instance of the recurring meeting R2
M2 ==
    [Task("m2", "M", TRUE, "2024-01-01T10:00", "daily", FALSE)
        EXCEPT !.parent_task_id = R2.id]

\* a completed task and a completed daily task
T6 == Task("t6", "T", TRUE, "2024-01-01", Null, FALSE)

D2 == Task("d2", "D", TRUE, "2024-01-01", Null, FALSE)

\* a template, and tasks of the categories M, D, T and P, incomplete and
\* completed
ViewPool == {R1, M1, D1, T1, P1, M2, D2, T6}

\* the collections of at most MaxViewTasks different tasks of the pool
ViewLists ==
    UNION {{ts \in [1..n -> ViewPool] :
               \A i, j \in 1..n : ts[i] = ts[j] => i = j} : n \in 0..MaxViewTasks}

InitViews == InitPage(InitialRows, {Null}, ViewLists)

\* a render of TaskList over the collection given
View(vm, dvm) ==
    /\ result = <<>>
    /\ result' = <<[viewMode |-> vm, dayViewMode |-> dvm,
                    view |-> Render(given, vm, dvm)]>>
    /\ UNCHANGED <<tasks, viewMode, selectedDate, dayViewMode, screenVars,
                   selectionVars, fetches, mutations, settled, db,
                   classifierVars, given, next_number>>

NextViews == \E vm \in ViewModes, dvm \in DayViewModes : View(vm, dvm)

SpecViews == InitViews /\ [][NextViews]_vars

---------------------------------------------------------------------------
(* Properties of the selection *)

\* a click on a shown item with no modifier key, with shift only, and with
\* ctrl or meta
PlainClickOn(item) == SelectBoxClick(item, FALSE, FALSE, FALSE)

ShiftClickOn(item) == SelectBoxClick(item, FALSE, FALSE, TRUE)

ToggleClickOn(item) ==
    \E ctrlKey, metaKey, shiftKey \in BOOLEAN :
        (ctrlKey \/ metaKey) /\ SelectBoxClick(item, ctrlKey, metaKey, shiftKey)

\* the ids at the positions of the stored ordering that lie between the
\* recorded last-clicked index (i when none is recorded) and i
SliceIds(i) ==
    LET last == IF lastClickedIndexRef = NoIndex THEN i ELSE lastClickedIndexRef
    IN {At(orderedVisibleTasksRef, j).id :
           j \in {x \in 0..(Len(orderedVisibleTasksRef) - 1) :
                     (last <= x /\ x <= i) \/ (i <= x /\ x <= last)}}

\* C1: a shift-click on visible index i sets the selection to exactly the
\* ids at positions min(last,i)..max(last,i) of the current ordering, drops
\* every selection outside that slice, and leaves the last-clicked index
\* unchanged.
C1_ShiftClickSelectsSlice ==
    [][\A k \in 1..Len(rendered) :
          ShiftClickOn(rendered[k]) =>
              /\ selectedIds' = SliceIds(rendered[k].index)
              /\ lastClickedIndexRef' = lastClickedIndexRef]_vars

\* C2 as stated: a plain click on t at index i empties the selection when
\* the selection is exactly {t}; in every other case the selection becomes
\* exactly {t} and the last-clicked index becomes i.
C2_PlainClickSelectsOnlyT ==
    [][\A k \in 1..Len(rendered) :
          PlainClickOn(rendered[k]) =>
              IF selectedIds = {rendered[k].task.id}
              THEN selectedIds' = {}
              ELSE /\ selectedIds' = {rendered[k].task.id}
                   /\ lastClickedIndexRef' = rendered[k].index]_vars

\* C2: a plain click on t at index i removes t from the selection and keeps
\* every other selected id when t is selected, makes the selection exactly
\* {t} when t is not selected, and in both cases the last-clicked index
\* becomes i.
C2_PlainClickSelectsOrDeselects ==
    [][\A k \in 1..Len(rendered) :
          PlainClickOn(rendered[k]) =>
              /\ selectedIds' = IF rendered[k].task.id \in selectedIds
                                THEN selectedIds \ {rendered[k].task.id}
                                ELSE {rendered[k].task.id}
              /\ lastClickedIndexRef' = rendered[k].index]_vars

\* a plain click on one of several selected tasks has left the others
\* selected: the task at the last-clicked index is not selected
C2_DeselectedOneOfSeveral ==
    /\ clickResult = "returned"
    /\ lastClickedIndexRef # NoIndex
    /\ lastClickedIndexRef < Len(orderedVisibleTasksRef)
    /\ At(orderedVisibleTasksRef, lastClickedIndexRef).id \notin selectedIds
    /\ Cardinality(selectedIds) >= 2

\* C3: a ctrl / meta click on t at index i flips the membership of t only,
\* every other id keeps its membership, and the last-clicked index becomes i.
C3_ToggleClickFlipsOnlyT ==
    [][\A k \in 1..Len(rendered) :
          ToggleClickOn(rendered[k]) =>
              /\ \A id \in (selectedIds \cup selectedIds') \ {rendered[k].task.id} :
                     (id \in selectedIds') = (id \in selectedIds)
              /\ (rendered[k].task.id \in selectedIds')
                     = (rendered[k].task.id \notin selectedIds)
              /\ lastClickedIndexRef' = rendered[k].index]_vars

\* click 2, shift-click 5, ctrl-click 0: positions 0, 2, 3, 4, 5 selected
C3_ClickShiftCtrlExample ==
    /\ Len(orderedVisibleTasksRef) = 6
    /\ selectedIds = {At(orderedVisibleTasksRef, j).id : j \in {0, 2, 3, 4, 5}}
    /\ lastClickedIndexRef = 0
    /\ clickResult = "returned"

\* C4: whatever index is recorded and whatever the current ordering, a
\* shift-click never throws.
C4_ShiftClickNeverThrows == clickResult # "TypeError"

\* the task the last-clicked index designates in the stored ordering
AnchorTask ==
    IF lastClickedIndexRef = NoIndex
       \/ lastClickedIndexRef >= Len(orderedVisibleTasksRef)
    THEN Null
    ELSE At(orderedVisibleTasksRef, lastClickedIndexRef).id

\* C5: whenever the view mode, the day sub-view, the selected date or the
\* task collection changes, the selection and the last-clicked index are
\* reset, or recomputed so that the index still designates the task it was
\* recorded for and only shown tasks are selected.
C5_ChangeResetsSelection ==
    [][(viewMode' # viewMode \/ dayViewMode' # dayViewMode
          \/ selectedDate' # selectedDate \/ tasks' # tasks) =>
          \/ selectedIds' = {} /\ lastClickedIndexRef' = NoIndex
          \/ /\ AnchorTask # Null
             /\ AnchorTask' = AnchorTask
             /\ selectedIds' \subseteq Ids(orderedVisibleTasksRef')]_vars

\* C6: for every shown item, the index handed to the click handler is the
\* position of its task in the stored ordering: ordered[index].id is the
\* id of the task.
C6_HandedIndexIsPosition ==
    \A k \in 1..Len(rendered) :
        /\ rendered[k].index < Len(orderedVisibleTasksRef)
        /\ At(orderedVisibleTasksRef, rendered[k].index).id = rendered[k].task.id

---------------------------------------------------------------------------
(* Properties of the mutations *)

\* C7: no PATCH and no DELETE is ever issued with the id of a projected
\* instance.
C7_NoMutationOfProjected == \A m \in mutations : ~m.projected

\* the request m fails, or the handler resumes after m failed
FailureStep(m) ==
    \/ \E response \in {"notok", "error"} : Respond(m, response)
    \/ m.response \in {"notok", "error"} /\ Resume(m)

\* C8: when a toggle or delete request fails, the task collection, the
\* selection and the last-clicked index are unchanged, no GET is issued and
\* no request is issued again.
C8_FailureLeavesStateAlone ==
    [][\A m \in mutations :
          FailureStep(m) =>
              /\ UNCHANGED <<tasks, selectedIds, lastClickedIndexRef, fetches>>
              /\ \A x \in mutations' : x.response = "pending" => x \in mutations
              /\ Cardinality(mutations') <= Cardinality(mutations)]_vars

\* a handler has finished after a failed request, rows shown and selected
C8_FailureHandled ==
    /\ settled.promise # "none"
    /\ ~settled.refetched
    /\ mutations = {}
    /\ tasks # <<>>
    /\ selectedIds # {}
    /\ lastClickedIndexRef # NoIndex

\* C9 as stated: every failed toggle or delete is reported to its caller:
\* the promise of the handler does not settle as it does on success.
C9_FailureIsReported ==
    [][\A m \in mutations :
          (m.response \in {"notok", "error"} /\ Resume(m)) =>
              settled'.promise = "rejected"]_vars

\* C9: a failed toggle or delete is not reported: the promise of the
\* handler is fulfilled as on success, and the one difference from a
\* success is that onTasksUpdate() is not called.
C9_FailureIsSwallowed ==
    [][\A m \in mutations :
          Resume(m) =>
              /\ settled'.promise = "fulfilled"
              /\ settled'.refetched = (m.response = "ok")
              /\ (fetches' # fetches) = (m.response = "ok")]_vars

\* a handler has finished, fulfilled, without the refetch of a success
C9_FulfilledWithoutRefetch ==
    /\ settled.promise = "fulfilled"
    /\ ~settled.refetched
    /\ PendingFetches = 0

---------------------------------------------------------------------------
(* Properties of the classifier *)

\* "monthly", "monthly:DD" and DD-DD
MonthlyForm(r) ==
    \/ r = "monthly"
    \/ /\ Len(r) = 10
       /\ SubSeq(r, 1, 8) = "monthly:"
       /\ IsDigit(CharAt(r, 9)) /\ IsDigit(CharAt(r, 10))
    \/ MatchesTwoDashTwo(r)

\* C10: classify returns Monthly for "monthly", for every "monthly:DD" and
\* for every rule that is two digits, a dash and two digits.
C10_MonthlyFormsAreMonthly ==
    (rule # Null /\ classified # "none" /\ MonthlyForm(rule))
        => classified = "Monthly"

\* the full and 3-letter English weekday names
WeekdayNames ==
    {"monday", "tuesday", "wednesday", "thursday", "friday", "saturday",
     "sunday", "mon", "tue", "wed", "thu", "fri", "sat", "sun"}

\* the lower-cased rule contains a weekday name
NamesWeekday(r) == \E d \in WeekdayNames : includes(toLowerCase(r), d)

Buckets == {"Daily", "Weekdays", "Weekly", "Monthly", "Other"}

\* the rule is one of the recognised patterns: daily, weekdays, a weekday
\* name, "monthly", DD-DD
Recognised(r) ==
    \/ toLowerCase(r) \in {"daily", "weekdays"}
    \/ NamesWeekday(r)
    \/ includes(toLowerCase(r), "monthly")
    \/ MatchesTwoDashTwo(r)

\* C20: classify returns one of the five buckets for null, the empty string
\* and every string, and returns Other for null, the empty string and every
\* string that matches none of the recognised patterns.
C20_ClassifyIsTotal ==
    classified # "none" =>
        /\ classified \in Buckets
        /\ (rule = Null \/ rule = "" \/ ~Recognised(rule)) => classified = "Other"

\* null and a string outside the grammar have been classified Other
C20_MalformedIsOther ==
    rule \in {Null, "0a-15", "every year"} /\ classified = "Other"

---------------------------------------------------------------------------
(* Properties of the grouping *)

\* the tasks of a list that classify puts into a bucket
ClassifiedAs(templates, key) ==
    {templates[k].id :
        k \in {j \in 1..Len(templates) :
                  classifyRecurrence(templates[j].recurrence_rule) = key}}

NamedBuckets == {"Daily", "Weekdays", "Weekly", "Monthly"}

Titles(r) == {r.titles[k] : k \in 1..Len(r.titles)}

\* C12: after grouping, each named bucket holds no task or at least two,
\* the members of a named bucket that had fewer than two are in Other, and
\* no subsection header is rendered for an emptied bucket.
C12_NamedBucketsHoldTwo ==
    result # <<>> =>
        \A key \in NamedBuckets :
            /\ Len(result[1].groups[key]) = 0 \/ Len(result[1].groups[key]) >= 2
            /\ Cardinality(ClassifiedAs(given, key)) < 2 =>
                   /\ ClassifiedAs(given, key) \subseteq Ids(result[1].groups.Other)
                   /\ Len(result[1].groups[key]) = 0
                   /\ key \notin Titles(result[1])

\* exactly one Weekly rule and the rest Other: no "Weekly" header, the
\* task is in Other
C12_LoneWeeklyIsInOther ==
    /\ result # <<>>
    /\ Len(given) >= 2
    /\ Cardinality(ClassifiedAs(given, "Weekly")) = 1
    /\ Cardinality(ClassifiedAs(given, "Other")) = Len(given) - 1
    /\ "Weekly" \notin Titles(result[1])
    /\ ClassifiedAs(given, "Weekly") \subseteq Ids(result[1].groups.Other)

\* the place of a bucket in Daily, Weekdays, Weekly, Monthly, Other
Rank(key) ==
    CHOOSE n \in 1..5 : <<"Daily", "Weekdays", "Weekly", "Monthly", "Other">>[n] = key

\* the bucket of the grouping g that holds the task
BucketOf(g, t) == CHOOSE key \in Buckets : t.id \in Ids(g[key])

\* C13: the flattened ordering and the rendered subsections are in the
\* order Daily, Weekdays, Weekly, Monthly, Other; the flattened list holds
\* every input task exactly once; an empty bucket contributes neither
\* tasks nor a header.
C13_FixedBucketOrder ==
    result # <<>> =>
        LET r == result[1] IN
        /\ Len(r.flat) = Len(given) /\ Ids(r.flat) = Ids(given)
        /\ \A i, j \in 1..Len(r.flat) :
               i < j => Rank(BucketOf(r.groups, r.flat[i]))
                           <= Rank(BucketOf(r.groups, r.flat[j]))
        /\ [k \in 1..Len(r.items) |-> r.items[k].task] = r.flat
        /\ \A i, j \in 1..Len(r.titles) : i < j => Rank(r.titles[i]) < Rank(r.titles[j])
        /\ \A key \in Buckets : Len(r.groups[key]) = 0 => key \notin Titles(r)

\* two named buckets and Other are shown, from an input in another order
C13_ThreeSubsectionsReordered ==
    /\ result # <<>>
    /\ Len(result[1].titles) >= 3
    /\ result[1].flat # given

---------------------------------------------------------------------------
(* Properties of the day calendar *)

\* hour and minute of the times of day
HourMinute ==
    [t \in TimesOfDay |->
        IF t = "00:00" THEN <<0, 0>> ELSE IF t = "09:30" THEN <<9, 30>>
        ELSE IF t = "09:45" THEN <<9, 45>> ELSE <<23, 59>>]

\* the time of day of a block laid out from BlockLists
TimeOf(block) == SubSeq(block.task.scheduled_date, 12, 16)

Blocks == {result[1].blocks[k] : k \in 1..Len(result[1].blocks)}

\* the result is a layout of timed tasks at the times of day
LaidOut == result # <<>> /\ given \in BlockLists

\* C14: a timed task at hour h, minute m with a positive duration d has
\* top = h*60 + m and height = max(d, 16), also next to an overlapping block.
C14_TopAndHeight ==
    LaidOut =>
        \A b \in Blocks :
            /\ b.top = HourMinute[TimeOf(b)][1] * 60 + HourMinute[TimeOf(b)][2]
            /\ b.task.duration_minutes > 0 =>
                   b.height = (IF b.task.duration_minutes > 16
                               THEN b.task.duration_minutes ELSE 16)

\* 09:30 for 45 minutes is at top 570 with height 45, overlapped by a block
\* of 10 minutes at 09:45 with height 16
C14_OverlappingBlocks ==
    /\ LaidOut
    /\ \E b, c \in Blocks :
          /\ TimeOf(b) = "09:30" /\ b.task.duration_minutes = 45
          /\ b.top = 570 /\ b.height = 45
          /\ TimeOf(c) = "09:45" /\ c.task.duration_minutes = 10
          /\ c.top = 585 /\ c.height = 16

\* C15: the duration laid out is duration_minutes whenever it is not null
\* and 30 only when it is null: duration_minutes = 0 gives height 16.
C15_DefaultOnlyForNull ==
    LaidOut =>
        \A b \in Blocks :
            LET d == IF b.task.duration_minutes = NoDuration
                     THEN 30 ELSE b.task.duration_minutes
            IN b.height = (IF d > 16 THEN d ELSE 16)

IsUntimed(t) == t.scheduled_date = Null \/ Len(t.scheduled_date) = 10

\* the place of a task in a list of different tasks
PlaceIn(ts, t) == CHOOSE k \in 1..Len(ts) : ts[k] = t

\* C16: the combined ordering of the calendar is the untimed tasks in
\* collection order, then the timed tasks by ascending time; every task of
\* the collection is in it exactly once; no untimed task is on the grid.
C16_UntimedThenTimed ==
    (result # <<>> /\ given \in CalendarLists) =>
        LET r == result[1] IN
        /\ Len(r.ordered) = Len(given)
        /\ {r.ordered[k] : k \in 1..Len(r.ordered)} = {given[k] : k \in 1..Len(given)}
        /\ \A i, j \in 1..Len(r.ordered) :
               i < j =>
                   /\ IsUntimed(r.ordered[j]) => IsUntimed(r.ordered[i])
                   /\ (IsUntimed(r.ordered[i]) /\ IsUntimed(r.ordered[j])) =>
                          PlaceIn(given, r.ordered[i]) < PlaceIn(given, r.ordered[j])
                   /\ (~IsUntimed(r.ordered[i]) /\ ~IsUntimed(r.ordered[j])) =>
                          StrLess(r.ordered[i].scheduled_date,
                                  r.ordered[j].scheduled_date)
        /\ \A k \in 1..Len(r.blocks) : ~IsUntimed(r.blocks[k].task)
        /\ \A k \in 1..Len(r.unscheduled) : IsUntimed(r.unscheduled[k].task)
        /\ Len(r.unscheduled) + Len(r.blocks) = Len(given)

\* 14:00, then 09:30, then an undated task: shown as undated, 09:30, 14:00
C16_LaterTaskGivenFirst ==
    /\ result # <<>>
    /\ given = <<T4, M1, P1>>
    /\ result[1].ordered = <<P1, M1, T4>>

---------------------------------------------------------------------------
(* Properties of the day list *)

\* the section of the day list a task is shown in
SectionOf(t) ==
    IF t.category = "M" THEN "Meetings"
    ELSE IF t.category = "D" THEN "Daily" ELSE "Tasks"

\* C17: in the day list, for every collection in any order, within each
\* section every projected task is after every real task of the section.
C17_ProjectedAfterReal ==
    (result # <<>> /\ given \in DayLists) =>
        LET items == result[1].items IN
        \A i, j \in 1..Len(items) :
            (/\ i < j
             /\ SectionOf(items[i].task) = SectionOf(items[j].task)
             /\ items[i].task.projected) => items[j].task.projected

---------------------------------------------------------------------------
(* Properties of the collaborator's rows *)

DateOf(row) ==
    IF row.scheduled_date = Null THEN Null ELSE SubSeq(row.scheduled_date, 1, 10)

TimeOfDay(row) ==
    IF row.scheduled_date = Null THEN ""
    ELSE SubSeq(row.scheduled_date, 11, Len(row.scheduled_date))

\* C18: after any creations, deletions and completions of recurring tasks,
\* no two D or M tasks have the same category, task_number and date, and no
\* two tasks of another category have the same category and task_number.
C18_NumbersAreUnique ==
    \A i, j \in 1..Len(db) :
        (i # j /\ db[i].category = db[j].category
               /\ db[i].task_number = db[j].task_number) =>
            /\ db[i].category \in {"D", "M"}
            /\ DateOf(db[i]) # DateOf(db[j])

\* the daily meeting completed into 2024-01-07, where a meeting already
\* had number 1, after the tasks numbered T-01 and T-02 were deleted
C18_AdvancedIntoNumberedDate ==
    /\ \E i, j \in 1..Len(db) :
          /\ db[i].category = "M" /\ db[i].recurrence_rule = "daily"
          /\ db[j].category = "M" /\ db[j].recurrence_rule = Null
          /\ DateOf(db[i]) = "2024-01-07" /\ DateOf(db[j]) = "2024-01-07"
          /\ db[j].task_number = 1 /\ db[i].task_number = 2
    /\ nextOf(next_number, "T") = 3

\* the row with the id
RowOf(rows, id) == rows[CHOOSE k \in 1..Len(rows) : rows[k].id = id]

HasRow(rows, id) == \E k \in 1..Len(rows) : rows[k].id = id

NoRecurringCompleted(rows) ==
    /\ \A k \in 1..Len(rows) : rows[k].recurrence_rule # Null => ~rows[k].completed
    /\ recurrentOf(rows, TRUE) = <<>>

---------------------------------------------------------------------------
(* Properties of the classifier on rules that differ in letter case *)

\* the letters of both strings are the same up to case
SameUpToCase(a, b) ==
    /\ Len(a) = Len(b)
    /\ \A i \in 1..Len(a) :
           \/ CharAt(a, i) = CharAt(b, i)
           \/ \E k \in 1..Len(Lower) :
                  {CharAt(a, i), CharAt(b, i)} = {CharAt(Lower, k), CharAt(Upper, k)}

\* C21: rules that differ in letter case only are classified alike; every
\* case variant of "daily" is Daily and of "weekdays" is Weekdays.
C21_StableUnderCase ==
    (result # <<>> /\ SameUpToCase(given[1], given[2])) =>
        /\ result[1][1] = result[1][2]
        /\ SameUpToCase(given[2], "daily") => result[1][2] = "Daily"
        /\ SameUpToCase(given[2], "weekdays") => result[1][2] = "Weekdays"

\* "wEeKdAyS" is Weekdays, as "weekdays" is
C21_MixedCaseWeekdays ==
    /\ result = <<<<"Weekdays", "Weekdays">>>>
    /\ given = <<"weekdays", "wEeKdAyS">>

---------------------------------------------------------------------------
(* Properties of the selection in the all and completed views *)

\* the state a plain click on the shown item has left
PlainClickedOn(item) ==
    /\ clickResult = "returned"
    /\ selectedIds = {item.task.id}
    /\ lastClickedIndexRef = item.index

\* the ids of the tasks shown from one place of the view to another
ShownBetween(a, b) ==
    {rendered[k].task.id :
        k \in {x \in 1..Len(rendered) : (a <= x /\ x <= b) \/ (b <= x /\ x <= a)}}

\* C22: in the all and completed views, after a plain click on a task a and
\* a shift-click on a task b, the selection is exactly the tasks shown
\* between a and b inclusive, whatever sections a and b are in.
C22_ShiftSelectsShownBetween ==
    [][\A a, b \in 1..Len(rendered) :
          (/\ viewMode \in {"all", "completed"}
           /\ PlainClickedOn(rendered[a])
           /\ ShiftClickOn(rendered[b])) =>
              selectedIds' = ShownBetween(a, b)]_vars

---------------------------------------------------------------------------
(* Properties of the views *)

\* the ordering a render of the collection given has made
Viewed(vm) == result # <<>> /\ result[1].viewMode = vm

ViewOrdered == result[1].view.ordered

\* C23: in every view the visible ordering contains each task id at most
\* once, so a range of k positions holds k different tasks.
C23_OrderingHasNoDuplicates ==
    result # <<>> =>
        \A i, j \in 1..Len(ViewOrdered) :
            ViewOrdered[i].id = ViewOrdered[j].id => i = j

\* C26: the all view's ordering contains every template and every
\* incomplete task that is not a template, whatever its category; the
\* completed view's ordering contains every completed task that is not a
\* template, whatever its category, and no incomplete task and no template.
C26_EveryTaskIsInItsView ==
    /\ Viewed("all") =>
           \A k \in 1..Len(given) :
               (given[k].is_template \/ ~given[k].completed) =>
                   given[k].id \in Ids(ViewOrdered)
    /\ Viewed("completed") =>
           /\ \A k \in 1..Len(given) :
                  (~given[k].is_template /\ given[k].completed) =>
                      given[k].id \in Ids(ViewOrdered)
           /\ \A k \in 1..Len(ViewOrdered) :
                  ViewOrdered[k].completed /\ ~ViewOrdered[k].is_template

---------------------------------------------------------------------------
(* Properties of the fetches *)

\* no GET, PATCH or DELETE is in flight
AllAnswered == PendingFetches = 0 /\ mutations = {}

\* C24: once every outstanding fetch has answered, in any order, the held
\* collection is the response to the request for the latest viewMode and
\* selectedDate.
C24_LatestResponseHeld ==
    AllAnswered => tasks = ServerRead(db, fetchUrl(viewMode, selectedDate))

---------------------------------------------------------------------------
(* Properties of the selection after the collection changes *)

\* the ids of the tasks on screen
ShownIds == {rendered[k].task.id : k \in 1..Len(rendered)}

\* C25: after any clicks, toggles, deletes, refreshes, date changes and
\* view switches, every selected id is the id of a task of the current
\* visible ordering.
C25_SelectionIsShown == selectedIds \subseteq ShownIds

====
